---- MODULE Spec2Model ----
(***************************************************************************)
(* A model of influxdb_logging/handler.py: the conversion of a log record  *)
(* into InfluxDB points (InfluxHandler._convert_to_point / _get_point),    *)
(* the synchronous handler (InfluxHandler.emit) and the queue-and-worker   *)
(* handler (AsyncInfluxHandler).                                           *)
(***************************************************************************)
EXTENDS Integers, Sequences, FiniteSets, TLC

(***************************************************************************)
(* Bounds of the model.                                                    *)
(***************************************************************************)
\* records emitted in one run of the dispatch pipeline
MaxRecords == 3
\* stop() calls in one run of the dispatch pipeline
MaxStops == 2
\* attributes of a record in the conversion specification
MaxAttrs == 2
\* handlers constructed in one process
MaxHandlers == 2
\* records emitted between two flushes of the buffering handler
MaxWindowEmits == 4
\* flushes of the buffering handler
MaxFlushes == 3

(***************************************************************************)
(* Python values.  Every value is a record of the same shape; t is the     *)
(* Python type, s the text of a str / the __name__ of a class / the        *)
(* message of an exception, n the number, items the elements of a list or  *)
(* tuple, or the (k, v) items of a dict in insertion order.                *)
(***************************************************************************)
NoneV == [t |-> "none", s |-> "", n |-> 0, items |-> <<>>]
StrV(str) == [t |-> "str", s |-> str, n |-> 0, items |-> <<>>]
IntV(num) == [t |-> "int", s |-> "", n |-> num, items |-> <<>>]
BoolV(b) == [t |-> "bool", s |-> "", n |-> IF b THEN 1 ELSE 0, items |-> <<>>]
DictV(kvs) == [t |-> "dict", s |-> "", n |-> 0, items |-> kvs]
ListV(elems) == [t |-> "list", s |-> "", n |-> 0, items |-> elems]
TupleV(elems) == [t |-> "tuple", s |-> "", n |-> 0, items |-> elems]
ClassV(name) == [t |-> "type", s |-> name, n |-> 0, items |-> <<>>]
ExcV(msg) == [t |-> "exc", s |-> msg, n |-> 0, items |-> <<>>]
TracebackV == [t |-> "traceback", s |-> "", n |-> 0, items |-> <<>>]

\* a Python dict with str keys, as a function; EmptyMap is {}
EmptyMap == [k \in {} |-> NoneV]

\* d[k] = v
Put(d, k, v) == [x \in (DOMAIN d) \cup {k} |-> IF x = k THEN v ELSE d[x]]

\* dict.update: the entries of other win
Update(d, other) ==
    [x \in (DOMAIN d) \cup (DOMAIN other) |-> IF x \in DOMAIN other THEN other[x] ELSE d[x]]

(***************************************************************************)
(* Module constants of handler.py.                                         *)
(***************************************************************************)
SKIP_ATTRIBUTES ==
    { "args", "asctime", "created", "exc_text", "filename",
      "funcName", "id", "levelname", "levelno", "lineno", "module",
      "msecs", "message", "msg", "name", "pathname", "process",
      "processName", "stack_info", "relativeCreated", "thread", "threadName" }

STACKTRACE_ATTRIBUTE == "exc_info"

\* DEFAULT_TAGS as the module defines it, before any handler is constructed
InitialDefaultTags ==
    [ filename |-> "source.fileName",
      funcName |-> "source.methodName",
      levelname |-> "level",
      lineno |-> "source.lineNumber",
      thread |-> "threadId",
      threadName |-> "threadName",
      processName |-> "processName" ]

\* DEFAULT_FIELDS as the module defines it, before any handler is constructed
InitialDefaultFields == [ message |-> "message", msg |-> "message" ]

\* the sentinel queue entry (None); records are numbered from 1
Sentinel == 0

VARIABLES
    DEFAULT_TAGS,    \* the module-level dict DEFAULT_TAGS (mutated by __init__)
    DEFAULT_FIELDS,  \* the module-level dict DEFAULT_FIELDS (mutated by __init__)
    cfg,             \* the constructor arguments kept on the handler
    ctor,            \* "new", "base" (InfluxHandler.__init__ returned), "ready", "failed"
    dbExists,        \* whether the sink holds the target database
    sinkLog,         \* the calls the sink has received, in order
    recs,            \* the records passed to emit, by number
    emitLog,         \* what each emit call did: [rec, result, phase, workerAt]
    queue,           \* AsyncInfluxHandler._queue: record numbers and Sentinel
    worker,          \* the worker thread: "unstarted", "waiting", "writing", "exited", "crashed"
    cur,             \* the record the worker holds while in Sink.write
    crashCause,      \* the exception that ended the worker, "" if none
    thread,          \* AsyncInfluxHandler._thread: "worker" or "None"
    stopPc,          \* the thread calling stop(): "idle", or "join" (sentinel enqueued)
    stopLog,         \* how each stop() call begun so far ended: "pending", "returned", "AttributeError"
    bTags,           \* conversion: the tags dict _get_point is filling
    bFields,         \* conversion: the fields dict _get_point is filling
    bErr,            \* conversion: the exception raised so far, "" if none
    bCount,          \* conversion: attributes visited so far
    built,           \* conversion: the result of _get_point, or NotBuilt
    bKey,            \* conversion of one attribute: its name
    bValue,          \* conversion of one attribute: its value
    bName,           \* conversion of one attribute: record.name
    handlers,        \* the constructor arguments of the handlers constructed so far
    buffer,          \* buffering handler: the records emitted since the last flush
    batches,         \* buffering handler: the records each flush took, in order
    elapsed          \* buffering handler: seconds since the last flush

vars == << DEFAULT_TAGS, DEFAULT_FIELDS, cfg, ctor, dbExists, sinkLog, recs, emitLog,
           queue, worker, cur, crashCause, thread, stopPc, stopLog,
           bTags, bFields, bErr, bCount, built, bKey, bValue, bName,
           handlers, buffer, batches, elapsed >>

pipeVars == << ctor, dbExists, sinkLog, recs, emitLog, queue, worker, cur, crashCause,
               thread, stopPc, stopLog >>

buildVars == << bTags, bFields, bErr, bCount, built >>

inputVars == << bKey, bValue, bName >>

bufferVars == << buffer, batches, elapsed >>

\* what the dispatch pipeline and the attribute-by-attribute conversion leave alone
otherVars == << inputVars, handlers, bufferVars >>

globalVars == << DEFAULT_TAGS, DEFAULT_FIELDS, cfg >>

(***************************************************************************)
(* The handler's view of its configuration.  __init__ binds                *)
(* self._include_tags to the DEFAULT_TAGS object itself and then updates   *)
(* it in place, so the handler reads the module-level dict.                *)
(***************************************************************************)
self_include_tags == DEFAULT_TAGS
self_include_fields == DEFAULT_FIELDS

(***************************************************************************)
(* str(value), for the values the model uses.                              *)
(***************************************************************************)
Digit(d) ==
    CASE d = 0 -> "0" [] d = 1 -> "1" [] d = 2 -> "2" [] d = 3 -> "3" [] d = 4 -> "4"
      [] d = 5 -> "5" [] d = 6 -> "6" [] d = 7 -> "7" [] d = 8 -> "8" [] OTHER -> "9"

RECURSIVE NatStr(_)
NatStr(m) == IF m < 10 THEN Digit(m) ELSE NatStr(m \div 10) \o Digit(m % 10)

PyStr(v) ==
    CASE v.t = "none" -> "None"
      [] v.t = "str" -> v.s
      [] v.t = "exc" -> v.s
      [] v.t = "int" -> IF v.n < 0 THEN "-" \o NatStr(0 - v.n) ELSE NatStr(v.n)
      [] v.t = "bool" -> IF v.n = 1 THEN "True" ELSE "False"
      [] v.t = "type" -> "<class '" \o v.s \o "'>"
      [] OTHER -> "<" \o v.t \o ">"

\* ' '.join(elems) for a sequence of str values
RECURSIVE JoinSpace(_)
JoinSpace(elems) ==
    IF elems = <<>> THEN ""
    ELSE IF Len(elems) = 1 THEN elems[1].s
    ELSE elems[1].s \o " " \o JoinSpace(Tail(elems))

\* ''.join(traceback.format_exception(etype, value, tb))
FormatException(elems) ==
    (IF elems[3].t = "traceback" THEN "Traceback (most recent call last):\n" ELSE "")
        \o elems[1].s \o ": " \o PyStr(elems[2]) \o "\n"

\* isinstance(value, int) or isinstance(value, float) or isinstance(value, bool)
IsNumber(v) == v.t \in {"int", "float", "bool"}

(***************************************************************************)
(* InfluxHandler._convert_to_point.  acc is [tags, fields, err]: the two   *)
(* dicts the caller passed, and the exception that left the call ("" when  *)
(* it returned).  An exception ends the whole conversion.                  *)
(***************************************************************************)
\* lines 137-141: the exc_info branch
ConvertStacktrace(value, acc) ==
    IF value.t # "tuple" THEN acc
    ELSE IF Len(value.items) = 0 THEN [acc EXCEPT !.err = "IndexError"]
    ELSE IF value.items[1].t # "type" THEN [acc EXCEPT !.err = "AttributeError"]
    ELSE IF Len(value.items) < 2 THEN [acc EXCEPT !.err = "IndexError"]
    ELSE IF Len(value.items) \notin 3..5 THEN [acc EXCEPT !.err = "TypeError"]
    ELSE [ tags |-> Put(acc.tags, "thrown.type", StrV(value.items[1].s)),
           fields |-> Put(Put(acc.fields, "thrown.message", StrV(PyStr(value.items[2]))),
                          "thrown.stackTrace", StrV(FormatException(value.items))),
           err |-> "" ]

\* the leaf branch without the SKIP_ATTRIBUTES test
ConvertLeafNoSkip(key, value, acc) ==
    IF key \in DOMAIN self_include_tags
    THEN IF key \notin cfg.exclude_tags
         THEN [acc EXCEPT !.tags = Put(acc.tags, self_include_tags[key], value)]
         ELSE acc
    ELSE IF key \in DOMAIN self_include_fields
    THEN IF key \notin cfg.exclude_fields
         THEN [acc EXCEPT !.fields = Put(acc.fields, self_include_fields[key], value)]
         ELSE acc
    ELSE IF key = STACKTRACE_ATTRIBUTE /\ cfg.include_stacktrace
    THEN ConvertStacktrace(value, acc)
    ELSE IF IsNumber(value)
    THEN IF cfg.extra_fields /\ key \notin cfg.exclude_fields
         THEN [acc EXCEPT !.fields = Put(acc.fields, key, value)]
         ELSE acc
    ELSE IF cfg.extra_tags /\ key \notin cfg.exclude_tags
         THEN [acc EXCEPT !.tags = Put(acc.tags, key, value)]
         ELSE acc

\* the leaf branch with each exclude test joined to its include test, so
\* that an excluded key goes on to the later branches
ConvertLeafFallthrough(key, value, acc) ==
    IF key \in DOMAIN self_include_tags /\ key \notin cfg.exclude_tags
    THEN [acc EXCEPT !.tags = Put(acc.tags, self_include_tags[key], value)]
    ELSE IF key \in DOMAIN self_include_fields /\ key \notin cfg.exclude_fields
    THEN [acc EXCEPT !.fields = Put(acc.fields, self_include_fields[key], value)]
    ELSE IF key = STACKTRACE_ATTRIBUTE /\ cfg.include_stacktrace
    THEN ConvertStacktrace(value, acc)
    ELSE IF key \in SKIP_ATTRIBUTES
    THEN acc
    ELSE IF IsNumber(value)
    THEN IF cfg.extra_fields /\ key \notin cfg.exclude_fields
         THEN [acc EXCEPT !.fields = Put(acc.fields, key, value)]
         ELSE acc
    ELSE IF cfg.extra_tags /\ key \notin cfg.exclude_tags
         THEN [acc EXCEPT !.tags = Put(acc.tags, key, value)]
         ELSE acc

\* lines 129-150: a value that is neither None, a dict nor a list
ConvertLeaf(key, value, acc) ==
    IF key \in DOMAIN self_include_tags
    THEN IF key \notin cfg.exclude_tags
         THEN [acc EXCEPT !.tags = Put(acc.tags, self_include_tags[key], value)]
         ELSE acc
    ELSE IF key \in DOMAIN self_include_fields
    THEN IF key \notin cfg.exclude_fields
         THEN [acc EXCEPT !.fields = Put(acc.fields, self_include_fields[key], value)]
         ELSE acc
    ELSE IF key = STACKTRACE_ATTRIBUTE /\ cfg.include_stacktrace
    THEN ConvertStacktrace(value, acc)
    ELSE IF key \in SKIP_ATTRIBUTES
    THEN acc
    ELSE IF IsNumber(value)
    THEN IF cfg.extra_fields /\ key \notin cfg.exclude_fields
         THEN [acc EXCEPT !.fields = Put(acc.fields, key, value)]
         ELSE acc
    ELSE IF cfg.extra_tags /\ key \notin cfg.exclude_tags
         THEN [acc EXCEPT !.tags = Put(acc.tags, key, value)]
         ELSE acc

\* lines 118-128.  In the dict branch k is an item of value.items(), a
\* (key, value) tuple: with a non-empty key the concatenation key + '.' + k
\* raises TypeError, with an empty key the lookup value[k] raises KeyError,
\* so only an empty dict gets through.  ' '.join raises TypeError on an
\* element that is no str.
ConvertToPoint(key, value, acc) ==
    IF acc.err # "" THEN acc
    ELSE IF value.t = "none" THEN acc
    ELSE IF value.t = "dict"
    THEN IF value.items = <<>> THEN acc
         ELSE IF key # "" THEN [acc EXCEPT !.err = "TypeError"]
         ELSE [acc EXCEPT !.err = "KeyError"]
    ELSE IF value.t = "list"
    THEN IF \A i \in 1..Len(value.items) : value.items[i].t = "str"
         THEN ConvertLeaf(key, StrV(JoinSpace(value.items)), acc)
         ELSE [acc EXCEPT !.err = "TypeError"]
    ELSE ConvertLeaf(key, value, acc)

(***************************************************************************)
(* Logger names and measurement names are sequences of characters.         *)
(***************************************************************************)
Root == << "r", "o", "o", "t" >>

\* the name left as it is
ReplaceDotsNot(name) == name

\* name.replace(".", ":")
ReplaceDots(name) == [i \in 1..Len(name) |-> IF name[i] = "." THEN ":" ELSE name[i]]

\* name.split('.'): the segments between the dots (always at least one)
RECURSIVE SplitDots(_)
SplitDots(name) ==
    IF \A i \in 1..Len(name) : name[i] # "." THEN << name >>
    ELSE LET p == CHOOSE i \in 1..Len(name) :
                      name[i] = "." /\ \A j \in 1..(i - 1) : name[j] # "."
         IN << SubSeq(name, 1, p - 1) >> \o SplitDots(SubSeq(name, p + 1, Len(name)))

\* int(record.created * 10 ** 9)
Nanos(created) == created * 1000000000

Point(measurement, tags, fields, created) ==
    [ measurement |-> measurement, tags |-> tags, fields |-> fields, time |-> Nanos(created) ]

\* lines 177-194: one point per prefix of the logger name
RECURSIVE BackpopPoints(_, _, _, _, _)
BackpopPoints(rname, subs, tags, fields, created) ==
    IF subs = <<>> THEN <<>>
    ELSE LET next == rname \o << ":" >> \o Head(subs)
         IN << Point(next, tags, fields, created) >>
                \o BackpopPoints(next, Tail(subs), tags, fields, created)

\* lines 163-196: the points of a record whose attributes gave tags and fields
MakePoints(name, created, tags, fields) ==
    IF cfg.measurement # <<>>
    THEN << Point(cfg.measurement, tags, fields, created) >>
    ELSE IF ~cfg.backpop
    THEN << Point(IF ReplaceDots(name) # <<>> THEN ReplaceDots(name) ELSE Root,
                  tags, fields, created) >>
    ELSE LET names == SplitDots(name)
             rname == IF names[1] # <<>> THEN names[1] ELSE Root
         IN << Point(rname, tags, fields, created) >>
                \o BackpopPoints(rname, Tail(names), tags, fields, created)

\* record_name.startswith('_'), for the attribute names the model draws
IsPrivate(key) == key \in {"_private"}

\* lines 156-161: the loop over record.__dict__.items(), attributes whose
\* name starts with '_' skipped
RECURSIVE ConvertAttrs(_, _)
ConvertAttrs(attrs, acc) ==
    IF attrs = <<>> THEN acc
    ELSE ConvertAttrs(Tail(attrs),
                      IF IsPrivate(Head(attrs).k) THEN acc
                      ELSE ConvertToPoint(Head(attrs).k, Head(attrs).v, acc))

EmptyAcc == [ tags |-> EmptyMap, fields |-> EmptyMap, err |-> "" ]

\* InfluxHandler._get_point: [err, points]; err is the exception raised, "" if none
GetPoint(record) ==
    LET acc == ConvertAttrs(record.attrs, EmptyAcc)
    IN IF acc.err # "" THEN [ err |-> acc.err, points |-> <<>> ]
       ELSE [ err |-> "", points |-> MakePoints(record.name, record.created, acc.tags, acc.fields) ]

(***************************************************************************)
(* The inputs of the dispatch pipeline.                                    *)
(***************************************************************************)
NameXY == << "x", ".", "y" >>

Attr(k, v) == [ k |-> k, v |-> v ]

\* logger.info('Info message')
RecPlain ==
    [ name |-> NameXY, created |-> 1,
      attrs |-> << Attr("name", StrV("x.y")), Attr("msg", StrV("Info message")),
                   Attr("levelname", StrV("INFO")), Attr("exc_info", NoneV) >> ]

\* logger.info('Info message', extra={'ctx': {'user': 1}})
RecNested ==
    [ name |-> NameXY, created |-> 2,
      attrs |-> << Attr("name", StrV("x.y")), Attr("msg", StrV("Info message")),
                   Attr("levelname", StrV("INFO")), Attr("exc_info", NoneV),
                   Attr("ctx", DictV(<< Attr("user", IntV(1)) >>)) >> ]

PipelineRecords == { RecPlain, RecNested }

DefaultCfg ==
    [ kind |-> "sync", measurement |-> <<>>, backpop |-> TRUE, lazy_init |-> FALSE,
      include_tags |-> EmptyMap, include_fields |-> EmptyMap,
      exclude_tags |-> {}, exclude_fields |-> {},
      extra_tags |-> TRUE, extra_fields |-> TRUE, include_stacktrace |-> TRUE ]

PipelineConfigs ==
    { [DefaultCfg EXCEPT !.kind = kd, !.lazy_init = lz] :
        kd \in {"sync", "async"}, lz \in BOOLEAN }

NotBuilt == [ err |-> "unbuilt", points |-> <<>> ]

\* no single-attribute conversion, no further handler, no buffering handler
NoOtherState ==
    /\ bKey = ""
    /\ bValue = NoneV
    /\ bName = <<>>
    /\ handlers = <<>>
    /\ buffer = <<>>
    /\ batches = <<>>
    /\ elapsed = 0

\* the state before the handler is constructed
Init ==
    /\ DEFAULT_TAGS = InitialDefaultTags
    /\ DEFAULT_FIELDS = InitialDefaultFields
    /\ cfg \in PipelineConfigs
    /\ ctor = "new"
    /\ dbExists \in BOOLEAN
    /\ sinkLog = <<>>
    /\ recs = <<>>
    /\ emitLog = <<>>
    /\ queue = <<>>
    /\ worker = "unstarted"
    /\ cur = 0
    /\ crashCause = ""
    /\ thread = "None"
    /\ stopPc = "idle"
    /\ stopLog = <<>>
    /\ bTags = EmptyMap
    /\ bFields = EmptyMap
    /\ bErr = ""
    /\ bCount = 0
    /\ built = NotBuilt
    /\ NoOtherState

(***************************************************************************)
(* The sink: the calls it receives are logged in order.                    *)
(***************************************************************************)
SinkCall(op, rec, points, result) ==
    [ op |-> op, rec |-> rec, points |-> points, result |-> result ]

Outcome(ok) == IF ok THEN "ok" ELSE "error"

\* what get_list_database answers: an error, or whether the target is listed
ListReply(ok, exists) == IF ~ok THEN "error" ELSE IF exists THEN "present" ELSE "absent"

\* line 103: whether __init__ talks to the sink at all
ChecksDatabase(lazy_init) == lazy_init = FALSE

\* create_database called whatever the list holds
NeedsCreateAlways(exists) == TRUE

\* line 104: database not in {x['name'] for x in get_list_database()}
NeedsCreate(exists) == ~exists

(***************************************************************************)
(* InfluxHandler.__init__ (lines 81-105).  The two include dicts are the   *)
(* module-level defaults, updated in place.  get_list_database and         *)
(* create_database raise when the sink fails, and the exception leaves     *)
(* __init__: no handler exists then.                                       *)
(***************************************************************************)
InitBase(listOk, createOk) ==
    /\ ctor = "new"
    /\ DEFAULT_TAGS' = Update(DEFAULT_TAGS, cfg.include_tags)
    /\ DEFAULT_FIELDS' = Update(DEFAULT_FIELDS, cfg.include_fields)
    /\ LET done == IF cfg.kind = "sync" THEN "ready" ELSE "base"
           list == SinkCall("list", 0, <<>>, ListReply(listOk, dbExists))
           create == SinkCall("create", 0, <<>>, Outcome(createOk))
       IN IF ~ChecksDatabase(cfg.lazy_init)
          THEN /\ ctor' = done
               /\ UNCHANGED << sinkLog, dbExists >>
          ELSE IF ~listOk
          THEN /\ ctor' = "failed"
               /\ sinkLog' = Append(sinkLog, list)
               /\ UNCHANGED dbExists
          ELSE IF ~NeedsCreate(dbExists)
          THEN /\ ctor' = done
               /\ sinkLog' = Append(sinkLog, list)
               /\ UNCHANGED dbExists
          ELSE /\ ctor' = IF createOk THEN done ELSE "failed"
               /\ sinkLog' = Append(Append(sinkLog, list), create)
               /\ dbExists' = createOk
    /\ UNCHANGED << cfg, recs, emitLog, queue, worker, cur, crashCause, thread, stopPc, stopLog >>
    /\ UNCHANGED buildVars
    /\ UNCHANGED otherVars

\* AsyncInfluxHandler.__init__ after super().__init__ (lines 210-213)
InitAsync ==
    /\ cfg.kind = "async"
    /\ ctor = "base"
    /\ ctor' = "ready"
    /\ queue' = <<>>
    /\ thread' = "worker"
    /\ worker' = "waiting"
    /\ UNCHANGED << dbExists, sinkLog, recs, emitLog, cur, crashCause, stopPc, stopLog >>
    /\ UNCHANGED globalVars
    /\ UNCHANGED buildVars
    /\ UNCHANGED otherVars

(***************************************************************************)
(* InfluxHandler.emit (line 116): build the points, write them; whatever   *)
(* _get_point or write_points raises leaves emit.                          *)
(***************************************************************************)
\* an emit that swallows the exception of write_points
SyncEmitResultSwallowed(ok) == "ok"

\* what the caller of the synchronous emit sees when write_points ends
SyncEmitResult(ok) == IF ok THEN "ok" ELSE "SinkError"

\* the position of the handler when emit is called
Phase ==
    IF \E i \in 1..Len(stopLog) : stopLog[i] = "returned" THEN "stopped"
    ELSE IF stopLog # <<>> THEN "draining"
    ELSE "running"

EmitEntry(id, result) ==
    [ rec |-> id, result |-> result, phase |-> Phase, workerAt |-> worker ]

SyncEmit(record, ok) ==
    /\ cfg.kind = "sync"
    /\ ctor = "ready"
    /\ Len(recs) < MaxRecords
    /\ LET id == Len(recs) + 1
           gp == GetPoint(record)
       IN /\ recs' = Append(recs, record)
          /\ IF gp.err # ""
             THEN /\ emitLog' = Append(emitLog, EmitEntry(id, gp.err))
                  /\ UNCHANGED sinkLog
             ELSE /\ sinkLog' = Append(sinkLog, SinkCall("write", id, gp.points, Outcome(ok)))
                  /\ emitLog' = Append(emitLog, EmitEntry(id, SyncEmitResult(ok)))
    /\ UNCHANGED << ctor, dbExists, queue, worker, cur, crashCause, thread, stopPc, stopLog >>
    /\ UNCHANGED globalVars
    /\ UNCHANGED buildVars
    /\ UNCHANGED otherVars

(***************************************************************************)
(* AsyncInfluxHandler: emit, the worker (_monitor) and stop.               *)
(***************************************************************************)
\* Queue.put_nowait on a queue without a size limit
Enqueue(q, item) == Append(q, item)

\* a queue handing out the newest entry first
DequeueNewest(q) == [ item |-> q[Len(q)], rest |-> SubSeq(q, 1, Len(q) - 1) ]

\* Queue.get(block=True): the oldest entry
Dequeue(q) == [ item |-> Head(q), rest |-> Tail(q) ]

\* emit as InfluxHandler.emit does it: the write on the caller's thread
EmitSinkCallsSync(id, record) ==
    << SinkCall("write", id, GetPoint(record).points, "ok") >>

\* emit falling back to the caller's thread once the worker thread is gone
EmitSinkCallsFallback(id, record) ==
    IF thread = "None" THEN << SinkCall("write", id, GetPoint(record).points, "ok") >> ELSE <<>>

\* the sink calls AsyncInfluxHandler.emit makes on the caller's thread: none
EmitSinkCalls(id, record) == <<>>

\* AsyncInfluxHandler.emit (lines 242-243)
Emit(record) ==
    /\ cfg.kind = "async"
    /\ ctor = "ready"
    /\ Len(recs) < MaxRecords
    /\ LET id == Len(recs) + 1
       IN /\ recs' = Append(recs, record)
          /\ queue' = Enqueue(queue, id)
          /\ sinkLog' = sinkLog \o EmitSinkCalls(id, record)
          /\ emitLog' = Append(emitLog, EmitEntry(id, "ok"))
    /\ UNCHANGED << ctor, dbExists, worker, cur, crashCause, thread, stopPc, stopLog >>
    /\ UNCHANGED globalVars
    /\ UNCHANGED buildVars
    /\ UNCHANGED otherVars

\* the worker going back to the top of its loop after the sentinel
AfterSentinelContinue == "waiting"

\* line 222-223: the worker's state after it took the sentinel
AfterSentinel == "exited"

\* lines 220-231: what an exception of write_points does to the worker; the
\* try statement catches queue.Empty only, so the exception ends the thread
AfterWriteError == "crashed"

\* _monitor, lines 221-226: take the next entry (blocking while the queue is
\* empty); leave the loop on the sentinel; otherwise build the points and
\* call write_points.  An exception of _get_point ends the thread.
WorkerGet ==
    /\ worker = "waiting"
    /\ queue # <<>>
    /\ LET d == Dequeue(queue)
           gp == GetPoint(recs[d.item])
       IN /\ queue' = d.rest
          /\ IF d.item = Sentinel
             THEN /\ worker' = AfterSentinel
                  /\ UNCHANGED << sinkLog, cur, crashCause >>
             ELSE IF gp.err # ""
             THEN /\ worker' = "crashed"
                  /\ crashCause' = gp.err
                  /\ UNCHANGED << sinkLog, cur >>
             ELSE /\ worker' = "writing"
                  /\ cur' = d.item
                  /\ sinkLog' = Append(sinkLog, SinkCall("write", d.item, gp.points, "pending"))
                  /\ UNCHANGED crashCause
    /\ UNCHANGED << ctor, dbExists, recs, emitLog, thread, stopPc, stopLog >>
    /\ UNCHANGED globalVars
    /\ UNCHANGED buildVars
    /\ UNCHANGED otherVars

\* _monitor, lines 226-231: write_points returns (then task_done, and back to
\* the top of the loop) or raises
WorkerWriteReturn(ok) ==
    /\ worker = "writing"
    /\ sinkLog' = [sinkLog EXCEPT ![Len(sinkLog)].result = Outcome(ok)]
    /\ cur' = 0
    /\ IF ok
       THEN /\ worker' = "waiting"
            /\ UNCHANGED crashCause
       ELSE /\ worker' = AfterWriteError
            /\ crashCause' = IF AfterWriteError = "crashed" THEN "SinkError" ELSE crashCause
    /\ UNCHANGED << ctor, dbExists, recs, emitLog, queue, thread, stopPc, stopLog >>
    /\ UNCHANGED globalVars
    /\ UNCHANGED buildVars
    /\ UNCHANGED otherVars

\* stop, line 246: _enqueue_sentinel
StopCall ==
    /\ cfg.kind = "async"
    /\ ctor = "ready"
    /\ stopPc = "idle"
    /\ Len(stopLog) < MaxStops
    /\ queue' = Enqueue(queue, Sentinel)
    /\ stopPc' = "join"
    /\ stopLog' = Append(stopLog, "pending")
    /\ UNCHANGED << ctor, dbExists, sinkLog, recs, emitLog, worker, cur, crashCause, thread >>
    /\ UNCHANGED globalVars
    /\ UNCHANGED buildVars
    /\ UNCHANGED otherVars

\* Thread.join returns once the thread has ended
JoinReturns(w) == w \in {"exited", "crashed"}

\* stop leaving self._thread as it was
ThreadAfterStopKept == "worker"

\* line 248: self._thread after stop
ThreadAfterStop == "None"

\* stop, lines 247-248: self._thread.join(), then self._thread = None; with
\* self._thread already None the attribute lookup raises AttributeError
StopJoin ==
    /\ stopPc = "join"
    /\ IF thread = "None"
       THEN /\ stopLog' = [stopLog EXCEPT ![Len(stopLog)] = "AttributeError"]
            /\ UNCHANGED thread
       ELSE /\ JoinReturns(worker)
            /\ thread' = ThreadAfterStop
            /\ stopLog' = [stopLog EXCEPT ![Len(stopLog)] = "returned"]
    /\ stopPc' = "idle"
    /\ UNCHANGED << ctor, dbExists, sinkLog, recs, emitLog, queue, worker, cur, crashCause >>
    /\ UNCHANGED globalVars
    /\ UNCHANGED buildVars
    /\ UNCHANGED otherVars

Next ==
    \/ \E listOk \in BOOLEAN, createOk \in BOOLEAN : InitBase(listOk, createOk)
    \/ InitAsync
    \/ \E record \in PipelineRecords, ok \in BOOLEAN : SyncEmit(record, ok)
    \/ \E record \in PipelineRecords : Emit(record)
    \/ WorkerGet
    \/ \E ok \in BOOLEAN : WorkerWriteReturn(ok)
    \/ StopCall
    \/ StopJoin

Spec == Init /\ [][Next]_vars

\* the worker thread is scheduled: it takes an entry when there is one, and a
\* write_points call that has been made ends
FairSpec == Spec /\ WF_vars(WorkerGet) /\ WF_vars(\E ok \in BOOLEAN : WorkerWriteReturn(ok))

(***************************************************************************)
(* The conversion on its own: a handler constructed with lazy_init, and    *)
(* _get_point applied to a record whose attributes are visited one at a    *)
(* time, as the loop of lines 156-161 does.                                *)
(***************************************************************************)
BuildKeys == { "a", "level", "levelname", "msg", "exc_info", "name", "_private" }

BuildValues ==
    { NoneV, StrV("s"), IntV(1),
      DictV(<<>>), DictV(<< Attr("b", IntV(1)) >>),
      ListV(<< StrV("p"), StrV("q") >>), ListV(<< IntV(1) >>),
      TupleV(<< ClassV("ValueError"), ExcV("bad"), TracebackV >>),
      TupleV(<< ClassV("ValueError"), ExcV("bad") >>) }

BuildNames == { <<>>, NameXY }

BuildCreated == { 2 }

\* measurement override (backpop is not read then), full name, one point per prefix
BuildNaming ==
    { [ measurement |-> << "m" >>, backpop |-> TRUE ],
      [ measurement |-> <<>>, backpop |-> FALSE ],
      [ measurement |-> <<>>, backpop |-> TRUE ] }

BuildConfigs ==
    { [ kind |-> "sync", measurement |-> nm.measurement, backpop |-> nm.backpop, lazy_init |-> TRUE,
        include_tags |-> it, include_fields |-> if,
        exclude_tags |-> et, exclude_fields |-> ef,
        extra_tags |-> xt, extra_fields |-> xf, include_stacktrace |-> st ] :
        nm \in BuildNaming,
        it \in { EmptyMap, [ a |-> "shared" ] },
        if \in { EmptyMap, [ level |-> "shared" ] },
        et \in { {}, {"a"} }, ef \in { {}, {"level"} },
        xt \in BOOLEAN, xf \in BOOLEAN, st \in BOOLEAN }

InitBuild ==
    /\ cfg \in BuildConfigs
    /\ DEFAULT_TAGS = Update(InitialDefaultTags, cfg.include_tags)
    /\ DEFAULT_FIELDS = Update(InitialDefaultFields, cfg.include_fields)
    /\ ctor = "ready"
    /\ dbExists = TRUE
    /\ sinkLog = <<>>
    /\ recs = <<>>
    /\ emitLog = <<>>
    /\ queue = <<>>
    /\ worker = "unstarted"
    /\ cur = 0
    /\ crashCause = ""
    /\ thread = "None"
    /\ stopPc = "idle"
    /\ stopLog = <<>>
    /\ bTags = EmptyMap
    /\ bFields = EmptyMap
    /\ bErr = ""
    /\ bCount = 0
    /\ built = NotBuilt
    /\ NoOtherState

\* one turn of the loop of _get_point (lines 156-161) on attribute key = value
BuildAttr(key, value) ==
    /\ built = NotBuilt
    /\ bErr = ""
    /\ bCount < MaxAttrs
    /\ LET acc == IF IsPrivate(key)
                  THEN [ tags |-> bTags, fields |-> bFields, err |-> "" ]
                  ELSE ConvertToPoint(key, value, [ tags |-> bTags, fields |-> bFields, err |-> "" ])
       IN /\ bTags' = acc.tags
          /\ bFields' = acc.fields
          /\ bErr' = acc.err
    /\ bCount' = bCount + 1
    /\ UNCHANGED built
    /\ UNCHANGED pipeVars
    /\ UNCHANGED otherVars
    /\ UNCHANGED globalVars

\* the rest of _get_point (lines 163-196), or the exception leaving it
BuildFinish(name, created) ==
    /\ built = NotBuilt
    /\ built' = IF bErr # "" THEN [ err |-> bErr, points |-> <<>> ]
                ELSE [ err |-> "", points |-> MakePoints(name, created, bTags, bFields) ]
    /\ UNCHANGED << bTags, bFields, bErr, bCount >>
    /\ UNCHANGED pipeVars
    /\ UNCHANGED otherVars
    /\ UNCHANGED globalVars

NextBuild ==
    \/ \E key \in BuildKeys, value \in BuildValues : BuildAttr(key, value)
    \/ \E name \in BuildNames, created \in BuildCreated : BuildFinish(name, created)

SpecBuild == InitBuild /\ [][NextBuild]_vars

(***************************************************************************)
(* _get_point as a function of its inputs: a configuration, and a record   *)
(* with one attribute and a logger name.                                   *)
(***************************************************************************)
\* '.'.join(segs) / ':'.join(segs) for a sequence of character sequences
RECURSIVE JoinWith(_, _)
JoinWith(segs, sep) ==
    IF segs = <<>> THEN <<>>
    ELSE IF Len(segs) = 1 THEN segs[1]
    ELSE segs[1] \o << sep >> \o JoinWith(Tail(segs), sep)

\* logger names by their segments: '', 'x', 'x.y', 'x.y.z', 'ab.c'
RecordSegments ==
    { <<>>, << << "x" >> >>, << << "x" >>, << "y" >> >>,
      << << "x" >>, << "y" >>, << "z" >> >>, << << "a", "b" >>, << "c" >> >> }

RecordNames == { JoinWith(segs, ".") : segs \in RecordSegments }

RecordKeys == BuildKeys \cup { "" }

RecordValues ==
    BuildValues \cup { BoolV(TRUE), TupleV(<< NoneV, NoneV, NoneV >>) }

\* include_fields naming the flattened key 'a.b'
FlatField == [ k \in { "a.b" } |-> "a.b" ]

RecordConfigs ==
    BuildConfigs \cup
    { [ c EXCEPT !.include_fields = if ] :
        c \in BuildConfigs, if \in { [ a |-> "f" ], FlatField } }

InitRecord ==
    /\ cfg \in RecordConfigs
    /\ DEFAULT_TAGS = Update(InitialDefaultTags, cfg.include_tags)
    /\ DEFAULT_FIELDS = Update(InitialDefaultFields, cfg.include_fields)
    /\ ctor = "ready"
    /\ dbExists = TRUE
    /\ sinkLog = <<>>
    /\ recs = <<>>
    /\ emitLog = <<>>
    /\ queue = <<>>
    /\ worker = "unstarted"
    /\ cur = 0
    /\ crashCause = ""
    /\ thread = "None"
    /\ stopPc = "idle"
    /\ stopLog = <<>>
    /\ bTags = EmptyMap
    /\ bFields = EmptyMap
    /\ bErr = ""
    /\ bCount = 0
    /\ built = NotBuilt
    /\ bKey \in RecordKeys
    /\ bValue \in RecordValues
    /\ bName \in RecordNames
    /\ handlers = <<>>
    /\ buffer = <<>>
    /\ batches = <<>>
    /\ elapsed = 0

\* the record the inputs describe
InputRecord == [ name |-> bName, created |-> 2, attrs |-> << Attr(bKey, bValue) >> ]

\* _get_point(record): the dicts it filled, and what it returned or raised
ConvertRecord ==
    /\ built = NotBuilt
    /\ LET acc == ConvertAttrs(InputRecord.attrs, EmptyAcc)
       IN /\ bTags' = acc.tags
          /\ bFields' = acc.fields
          /\ bErr' = acc.err
    /\ bCount' = 1
    /\ built' = GetPoint(InputRecord)
    /\ UNCHANGED << inputVars, handlers, bufferVars >>
    /\ UNCHANGED pipeVars
    /\ UNCHANGED globalVars

NextRecord == ConvertRecord

SpecRecord == InitRecord /\ [][NextRecord]_vars

(***************************************************************************)
(* SpecConfig: several handlers constructed in one process.  Every         *)
(* __init__ binds self._include_tags / self._include_fields to the         *)
(* module-level dicts and updates them in place.                           *)
(***************************************************************************)
ConfigTagOverrides ==
    { EmptyMap, [ a |-> "shared" ], [ a |-> "other" ], [ levelname |-> "severity" ] }

ConfigFieldOverrides ==
    { EmptyMap, [ level |-> "shared" ], [ a |-> "f" ], FlatField }

\* no handler constructed yet, no record in the pipeline
InitConfig ==
    /\ cfg = [DefaultCfg EXCEPT !.lazy_init = TRUE]
    /\ DEFAULT_TAGS = InitialDefaultTags
    /\ DEFAULT_FIELDS = InitialDefaultFields
    /\ ctor = "new"
    /\ dbExists = TRUE
    /\ sinkLog = <<>>
    /\ recs = <<>>
    /\ emitLog = <<>>
    /\ queue = <<>>
    /\ worker = "unstarted"
    /\ cur = 0
    /\ crashCause = ""
    /\ thread = "None"
    /\ stopPc = "idle"
    /\ stopLog = <<>>
    /\ bTags = EmptyMap
    /\ bFields = EmptyMap
    /\ bErr = ""
    /\ bCount = 0
    /\ built = NotBuilt
    /\ NoOtherState

\* InfluxHandler(include_tags=it, include_fields=if, lazy_init=True)
Construct(it, if) ==
    /\ Len(handlers) < MaxHandlers
    /\ DEFAULT_TAGS' = Update(DEFAULT_TAGS, it)
    /\ DEFAULT_FIELDS' = Update(DEFAULT_FIELDS, if)
    /\ cfg' = [cfg EXCEPT !.include_tags = it, !.include_fields = if]
    /\ handlers' = Append(handlers, cfg')
    /\ ctor' = "ready"
    /\ UNCHANGED << dbExists, sinkLog, recs, emitLog, queue, worker, cur, crashCause,
                    thread, stopPc, stopLog >>
    /\ UNCHANGED buildVars
    /\ UNCHANGED << inputVars, bufferVars >>

\* handlers[i]._include_tags: the object bound at line 89
HandlerIncludeTags(i) == DEFAULT_TAGS

\* handlers[i]._include_fields: the object bound at line 93
HandlerIncludeFields(i) == DEFAULT_FIELDS

NextConfig ==
    \E it \in ConfigTagOverrides, if \in ConfigFieldOverrides : Construct(it, if)

SpecConfig == InitConfig /\ [][NextConfig]_vars

(***************************************************************************)
(* SpecBuffer: the buffering handler.  emit builds the record's points and *)
(* keeps them; every flush interval the buffered points go to the sink in  *)
(* one write call.                                                         *)
(***************************************************************************)
\* flush_interval=2
FlushInterval == 2

Severities == << "DEBUG", "INFO", "WARNING", "ERROR" >>

\* the i-th record of the loop: debug, info, warning, error in turn
BufferedRecord(i) ==
    [ name |-> NameXY, created |-> 2,
      attrs |-> << Attr("name", StrV("x.y")),
                   Attr("msg", StrV(Severities[((i - 1) % 4) + 1])),
                   Attr("levelname", StrV(Severities[((i - 1) % 4) + 1])),
                   Attr("exc_info", NoneV) >> ]

InitBuffer ==
    /\ cfg = [DefaultCfg EXCEPT !.kind = "buffering", !.lazy_init = TRUE]
    /\ DEFAULT_TAGS = InitialDefaultTags
    /\ DEFAULT_FIELDS = InitialDefaultFields
    /\ ctor = "ready"
    /\ dbExists = TRUE
    /\ sinkLog = <<>>
    /\ recs = <<>>
    /\ emitLog = <<>>
    /\ queue = <<>>
    /\ worker = "unstarted"
    /\ cur = 0
    /\ crashCause = ""
    /\ thread = "None"
    /\ stopPc = "idle"
    /\ stopLog = <<>>
    /\ bTags = EmptyMap
    /\ bFields = EmptyMap
    /\ bErr = ""
    /\ bCount = 0
    /\ built = NotBuilt
    /\ NoOtherState

BufferEntry(id, points) == [ rec |-> id, points |-> points ]

\* emit(record): the record's points are built and kept, nothing is written
BufferEmit ==
    /\ Len(buffer) < MaxWindowEmits
    /\ LET id == Len(recs) + 1
           pt == GetPoint(BufferedRecord(id))
       IN /\ pt.err = ""
          /\ recs' = Append(recs, BufferedRecord(id))
          /\ buffer' = Append(buffer, BufferEntry(id, pt.points))
    /\ UNCHANGED << batches, elapsed >>
    /\ UNCHANGED << ctor, dbExists, sinkLog, emitLog, queue, worker, cur, crashCause,
                    thread, stopPc, stopLog >>
    /\ UNCHANGED buildVars
    /\ UNCHANGED << inputVars, handlers >>
    /\ UNCHANGED globalVars

\* one unit of the flush interval passes
BufferTick ==
    /\ elapsed < FlushInterval
    /\ elapsed' = elapsed + 1
    /\ UNCHANGED << buffer, batches >>
    /\ UNCHANGED pipeVars
    /\ UNCHANGED buildVars
    /\ UNCHANGED << inputVars, handlers >>
    /\ UNCHANGED globalVars

\* the points of the newest buffered record only
FlushedPointsLast(buf) == IF buf = <<>> THEN <<>> ELSE buf[Len(buf)].points

RECURSIVE FlushedPoints(_)
\* the points of every buffered record, in the order of the emits
FlushedPoints(buf) ==
    IF buf = <<>> THEN <<>> ELSE buf[1].points \o FlushedPoints(Tail(buf))

\* the flush interval has elapsed: the buffered points are written in one
\* call and the buffer is emptied; an empty buffer is not written
BufferFlush ==
    /\ elapsed = FlushInterval
    /\ Len(batches) < MaxFlushes
    /\ elapsed' = 0
    /\ buffer' = <<>>
    /\ IF buffer = <<>>
       THEN UNCHANGED << sinkLog, batches >>
       ELSE /\ sinkLog' = Append(sinkLog, SinkCall("write", 0, FlushedPoints(buffer), "ok"))
            /\ batches' = Append(batches, [ i \in 1..Len(buffer) |-> buffer[i].rec ])
    /\ UNCHANGED << ctor, dbExists, recs, emitLog, queue, worker, cur, crashCause,
                    thread, stopPc, stopLog >>
    /\ UNCHANGED buildVars
    /\ UNCHANGED << inputVars, handlers >>
    /\ UNCHANGED globalVars

NextBuffer == BufferEmit \/ BufferTick \/ BufferFlush

SpecBuffer == InitBuffer /\ [][NextBuffer]_vars

(***************************************************************************)
(* Properties.                                                             *)
(***************************************************************************)
IsAsync == cfg.kind = "async"

IsWrite(c) == c.op = "write"

\* the write_points calls the sink has received, in order
Writes == SelectSeq(sinkLog, IsWrite)

\* the records passed to write_points so far
WrittenRecs == { Writes[i].rec : i \in 1..Len(Writes) }

\* the number of write_points calls made for record id
WriteCount(id) == Cardinality({ i \in 1..Len(Writes) : Writes[i].rec = id })

\* some stop() call has returned
StopReturned == \E k \in 1..Len(stopLog) : stopLog[k] = "returned"

\* no sink call has failed
SinkHealthy == \A i \in 1..Len(sinkLog) : sinkLog[i].result # "error"

\* C1: on an AsyncInfluxHandler the worker's write_points calls are made in
\* the order in which emit enqueued the records (records are numbered in
\* that order): an earlier call is always for an earlier record.
C1_WritesInEmitOrder ==
    IsAsync => \A i, j \in 1..Len(Writes) : i < j => Writes[i].rec < Writes[j].rec

C1_Witness == IsAsync /\ Len(Writes) = 3

\* C2: once a stop() has returned, every record that was enqueued before
\* the first sentinel has been passed to write_points.
C2_StopDrainsQueue ==
    (IsAsync /\ StopReturned) =>
        \A i \in 1..Len(emitLog) : emitLog[i].phase = "running" => emitLog[i].rec \in WrittenRecs

\* C3: a write_points call that failed leaves the worker in its loop: the
\* worker thread is not ended by it.
C3_WriteFailureKeepsWorker ==
    (IsAsync /\ \E i \in 1..Len(sinkLog) : IsWrite(sinkLog[i]) /\ sinkLog[i].result = "error")
        => worker # "crashed"

\* C4: with a sink whose calls all succeed, every record emitted on a
\* running AsyncInfluxHandler is eventually written, by exactly one
\* write_points call, and no record is ever written twice.
C4_EveryRecordWrittenOnce ==
    /\ [](\A id \in 1..Len(recs) : WriteCount(id) <= 1)
    /\ \A id \in 1..MaxRecords :
         (IsAsync /\ id <= Len(emitLog) /\ emitLog[id].phase = "running")
            ~> (~SinkHealthy \/ (WriteCount(id) = 1 /\ worker # "writing"))

\* C5: an emit made after a stop() has returned ends normally, and its
\* record is never passed to write_points: it stays in the queue.
C5_EmitAfterStopNotDelivered ==
    \A i \in 1..Len(emitLog) :
        (IsAsync /\ emitLog[i].phase = "stopped") =>
            /\ emitLog[i].result = "ok"
            /\ emitLog[i].rec \notin WrittenRecs
            /\ \E q \in 1..Len(queue) : queue[q] = emitLog[i].rec

C5_Witness == IsAsync /\ \E i \in 1..Len(emitLog) : emitLog[i].phase = "stopped"

\* C6: a stop() begun after a stop() has returned does not wait for
\* anything: self._thread is None, its next step is enabled and ends it
\* with AttributeError.
C6_SecondStopFailsFast ==
    /\ (stopPc = "join" /\ StopReturned) => (thread = "None" /\ ENABLED StopJoin)
    /\ \A k \in 1..Len(stopLog) :
         (\E j \in 1..(k - 1) : stopLog[j] = "returned") =>
             stopLog[k] \in {"pending", "AttributeError"}

C6_Witness == stopLog = << "returned", "AttributeError" >>

\* C7: AsyncInfluxHandler.emit can be called in every state of the worker
\* and the sink (a write in flight included); it appends the record to the
\* queue, makes no sink call, does not touch the worker, and ends normally.
C7_EmitOnlyEnqueues ==
    /\ []((IsAsync /\ ctor = "ready" /\ Len(recs) < MaxRecords)
            => ENABLED (\E record \in PipelineRecords : Emit(record)))
    /\ [][(IsAsync /\ Len(emitLog') = Len(emitLog) + 1) =>
            /\ sinkLog' = sinkLog
            /\ queue' = Append(queue, Len(recs'))
            /\ worker' = worker
            /\ emitLog'[Len(emitLog')].result = "ok"]_vars

C7_Witness ==
    IsAsync /\ \E i \in 1..Len(emitLog) : emitLog[i].workerAt = "writing"

\* C8: when InfluxHandler.emit has ended, the write_points call for its
\* record has been made (unless building the points raised), and emit ended
\* normally only if that call succeeded: a failed write ends emit with the
\* sink's error.
C8_SyncEmitSurfacesFailure ==
    cfg.kind = "sync" =>
        \A i \in 1..Len(emitLog) :
            LET e == emitLog[i]
                ws == { j \in 1..Len(Writes) : Writes[j].rec = e.rec }
            IN /\ e.result \in {"ok", "SinkError"} => Cardinality(ws) = 1
               /\ e.result = "ok" => \A j \in ws : Writes[j].result = "ok"
               /\ \A j \in ws : Writes[j].result = "error" => e.result = "SinkError"
               /\ \A j \in ws : Writes[j].result # "pending"

C8_Witness ==
    cfg.kind = "sync" /\ \E i \in 1..Len(emitLog) : emitLog[i].result = "SinkError"

\* C9: with lazy_init false the constructor first lists the databases and
\* creates the target exactly when the list does not hold it, before any
\* record is accepted and before the worker starts; a failure of either
\* call fails the construction.  With lazy_init true it makes neither call.
C9_DatabaseEnsuredAtConstruction ==
    LET admin == { i \in 1..Len(sinkLog) : sinkLog[i].op \in {"list", "create"} }
        creates == { i \in 1..Len(sinkLog) : sinkLog[i].op = "create" }
    IN /\ cfg.lazy_init => admin = {}
       /\ ctor = "new" => sinkLog = <<>>
       /\ (recs # <<>> \/ worker # "unstarted" \/ Writes # <<>>) => ctor = "ready"
       /\ (~cfg.lazy_init /\ ctor # "new") =>
            /\ sinkLog[1].op = "list"
            /\ admin \subseteq {1, 2}
            /\ sinkLog[1].result = "error" => (ctor = "failed" /\ creates = {})
            /\ sinkLog[1].result = "present" => (ctor # "failed" /\ creates = {})
            /\ sinkLog[1].result = "absent" =>
                 /\ creates = {2}
                 /\ sinkLog[2].result = "error" <=> ctor = "failed"
                 /\ sinkLog[2].result = "ok" => dbExists

C9_Witness ==
    /\ IsAsync /\ ~cfg.lazy_init /\ worker = "writing"
    /\ sinkLog[1].result = "absent" /\ sinkLog[2].op = "create"

\* C10: no point built by _get_point has a key that is both a tag and a field.
C10_TagsFieldsDisjoint ==
    \A i \in 1..Len(built.points) :
        (DOMAIN built.points[i].tags) \cap (DOMAIN built.points[i].fields) = {}

(***************************************************************************)
(* Properties of the conversion of one record (SpecRecord).                *)
(***************************************************************************)
\* _get_point has returned or raised
Converted == built # NotBuilt

\* the attribute reaches the leaf branch of _convert_to_point as it is
IsLeaf(v) == v.t \notin {"none", "dict", "list"}

NoOutput == bTags = EmptyMap /\ bFields = EmptyMap

\* C11 as claimed: an attribute named in SKIP_ATTRIBUTES, with a leaf value,
\* gives no tag and no field under any configuration.
C11_SkipSetExcluded ==
    (Converted /\ bKey \in SKIP_ATTRIBUTES /\ IsLeaf(bValue)) => NoOutput

\* C11: an attribute named in SKIP_ATTRIBUTES that is a key of neither
\* include map, with a leaf value, gives no tag and no field under any
\* configuration (and the conversion does not raise).
C11_SkipSetExcludedUnlessIncluded ==
    (/\ Converted
     /\ bKey \in SKIP_ATTRIBUTES
     /\ IsLeaf(bValue)
     /\ bKey \notin (DOMAIN self_include_tags) \cup (DOMAIN self_include_fields))
        => (NoOutput /\ bErr = "")

C11_Witness ==
    /\ Converted /\ bKey = "name" /\ bValue = StrV("s")
    /\ cfg.extra_tags /\ cfg.exclude_tags = {} /\ NoOutput

\* what a rule of the resolution order gives: a tag, a field, the
\* stack-trace entries, or nothing
Disposition(kind, name) == [ kind |-> kind, name |-> name ]

\* rule 8 of the resolution order
ExtraDisposition(key, value) ==
    IF IsNumber(value)
    THEN IF cfg.extra_fields /\ key \notin cfg.exclude_fields
         THEN Disposition("field", key) ELSE Disposition("dropped", "")
    ELSE IF cfg.extra_tags /\ key \notin cfg.exclude_tags
         THEN Disposition("tag", key) ELSE Disposition("dropped", "")

\* rules 6 to 8 of the resolution order
LateDisposition(key, value) ==
    IF key = "exc_info" /\ cfg.include_stacktrace THEN Disposition("stacktrace", "")
    ELSE IF key \in SKIP_ATTRIBUTES THEN Disposition("dropped", "")
    ELSE ExtraDisposition(key, value)

\* the resolution order as claimed: a key failing rule 4 or 5 goes on
ClaimedDisposition(key, value) ==
    IF key \in DOMAIN self_include_tags /\ key \notin cfg.exclude_tags
    THEN Disposition("tag", self_include_tags[key])
    ELSE IF key \in DOMAIN self_include_fields /\ key \notin cfg.exclude_fields
    THEN Disposition("field", self_include_fields[key])
    ELSE LateDisposition(key, value)

\* the resolution order with the include maps deciding alone
NestedDisposition(key, value) ==
    IF key \in DOMAIN self_include_tags
    THEN IF key \notin cfg.exclude_tags
         THEN Disposition("tag", self_include_tags[key]) ELSE Disposition("dropped", "")
    ELSE IF key \in DOMAIN self_include_fields
    THEN IF key \notin cfg.exclude_fields
         THEN Disposition("field", self_include_fields[key]) ELSE Disposition("dropped", "")
    ELSE LateDisposition(key, value)

\* the tags and fields of the converted attribute are those of disposition d
OutputIs(d) ==
    CASE d.kind = "tag" ->
            /\ DOMAIN bTags = { d.name } /\ bTags[d.name] = bValue
            /\ bFields = EmptyMap
      [] d.kind = "field" ->
            /\ DOMAIN bFields = { d.name } /\ bFields[d.name] = bValue
            /\ bTags = EmptyMap
      [] d.kind = "stacktrace" ->
            IF bValue.t = "tuple"
            THEN /\ DOMAIN bTags = { "thrown.type" }
                 /\ DOMAIN bFields = { "thrown.message", "thrown.stackTrace" }
            ELSE NoOutput
      [] OTHER -> NoOutput

\* a leaf attribute that _convert_to_point classified without raising
Classified == Converted /\ IsLeaf(bValue) /\ ~IsPrivate(bKey) /\ bErr = ""

C13_HierarchyExpansion ==
    (Converted /\ bErr = "" /\ cfg.measurement = <<>>) =>
        \A segs \in RecordSegments :
            bName = JoinWith(segs, ".") =>
                /\ IF segs = <<>>
                   THEN Len(built.points) = 1 /\ built.points[1].measurement = Root
                   ELSE IF cfg.backpop
                   THEN /\ Len(built.points) = Len(segs)
                        /\ \A i \in 1..Len(segs) :
                             built.points[i].measurement = JoinWith(SubSeq(segs, 1, i), ":")
                   ELSE /\ Len(built.points) = 1
                        /\ built.points[1].measurement = JoinWith(segs, ":")
                /\ \A i \in 1..Len(built.points) :
                     /\ built.points[i].tags = bTags
                     /\ built.points[i].fields = bFields
                     /\ built.points[i].time = 2000000000

C13_Witness ==
    /\ Converted /\ bErr = "" /\ cfg.measurement = <<>> /\ cfg.backpop
    /\ bName = << "x", ".", "y", ".", "z" >>
    /\ Len(built.points) = 3
    /\ built.points[3].measurement = << "x", ":", "y", ":", "z" >>
    /\ bTags # EmptyMap

\* the name a field of the flattened key 'a.b' / 'b' is claimed to get
FlatKeyIsField(flat) ==
    \/ cfg.include_fields = FlatField /\ flat = "a.b" /\ flat \notin cfg.exclude_fields
    \/ /\ flat \notin (DOMAIN self_include_tags) \cup (DOMAIN self_include_fields)
       /\ cfg.extra_fields /\ flat \notin cfg.exclude_fields

\* C14: attribute a = {b: 1} is flattened to the key 'a.b' (to 'b' under an
\* empty parent key) and gives the field a.b = 1, when include_fields maps
\* 'a.b' to itself and when it is an extra field.
C14_NestedMappingFlattened ==
    \A parent \in { "a", "" } :
        LET flat == IF parent = "" THEN "b" ELSE parent \o "." \o "b"
        IN (/\ Converted /\ bKey = parent
            /\ bValue = DictV(<< Attr("b", IntV(1)) >>)
            /\ FlatKeyIsField(flat))
              => /\ built.err = ""
                 /\ \A i \in 1..Len(built.points) :
                      /\ flat \in DOMAIN built.points[i].fields
                      /\ built.points[i].fields[flat] = IntV(1)

\* C15: with include_stacktrace, an exc_info tuple that has not three
\* elements gives no thrown.* tag or field, and _get_point does not raise.
C15_MalformedExcInfoDropped ==
    (/\ Converted /\ bKey = "exc_info" /\ cfg.include_stacktrace
     /\ bValue.t = "tuple" /\ Len(bValue.items) # 3)
        => /\ built.err = ""
           /\ \A i \in 1..Len(built.points) :
                /\ "thrown.type" \notin DOMAIN built.points[i].tags
                /\ { "thrown.message", "thrown.stackTrace" }
                       \cap DOMAIN built.points[i].fields = {}

\* C16: _get_point returns a list of points for every record; it never raises.
C16_BuildNeverRaises == Converted => (built.err = "" /\ Len(built.points) >= 1)

(***************************************************************************)
(* Properties of several handlers in one process (SpecConfig).             *)
(***************************************************************************)
\* C17: the include maps of every constructed handler are the defaults
\* merged with that handler's own overrides only, whatever handlers were
\* constructed before or after it.
C17_ConfigPerInstance ==
    \A i \in 1..Len(handlers) :
        /\ HandlerIncludeTags(i) = Update(InitialDefaultTags, handlers[i].include_tags)
        /\ HandlerIncludeFields(i) = Update(InitialDefaultFields, handlers[i].include_fields)

(***************************************************************************)
(* Properties of the buffering handler (SpecBuffer).                       *)
(***************************************************************************)
RECURSIVE Flatten(_)
Flatten(ss) == IF ss = <<>> THEN <<>> ELSE Head(ss) \o Flatten(Tail(ss))

\* the points of a write that are named by the logger's full name (the
\* rows the query of one measurement returns)
FullNameRows(w) ==
    Cardinality({ k \in 1..Len(w.points) : w.points[k].measurement = << "x", ":", "y" >> })

RECURSIVE RowsUpTo(_)
\* the rows of the full-name measurement after the first j writes
RowsUpTo(j) == IF j = 0 THEN 0 ELSE RowsUpTo(j - 1) + FullNameRows(sinkLog[j])

\* C18: the buffering handler writes nothing while records are emitted
\* within a flush window; every write is made by a flush and carries, in one
\* call, all points of all records emitted since the previous flush, in
\* order; so after each flush the sink holds one full-name row per record
\* emitted before it, and every emitted record is either delivered by
\* exactly one write or still buffered.
C18_BufferedUntilFlush ==
    /\ Len(sinkLog) = Len(batches)
    /\ Flatten(batches) \o [ i \in 1..Len(buffer) |-> buffer[i].rec ]
          = [ i \in 1..Len(recs) |-> i ]
    /\ \A j \in 1..Len(batches) :
         /\ batches[j] # <<>>
         /\ IsWrite(sinkLog[j])
         /\ Len(sinkLog[j].points) = 2 * Len(batches[j])
         /\ \A k \in 1..Len(batches[j]) :
              LET id == batches[j][k]
                  level == recs[id].attrs[3].v
              IN /\ sinkLog[j].points[2 * k - 1].measurement = << "x" >>
                 /\ sinkLog[j].points[2 * k].measurement = << "x", ":", "y" >>
                 /\ sinkLog[j].points[2 * k - 1].tags["level"] = level
                 /\ sinkLog[j].points[2 * k].tags["level"] = level
         /\ RowsUpTo(j) = Len(Flatten(SubSeq(batches, 1, j)))

C18_Witness ==
    /\ Len(buffer) = MaxWindowEmits
    /\ Len(batches) = 2
    /\ Len(sinkLog) = 2
    /\ \A j \in 1..2 : Len(batches[j]) = MaxWindowEmits /\ RowsUpTo(j) = j * MaxWindowEmits
    /\ elapsed < FlushInterval

(***************************************************************************)
(* Further properties of the dispatch pipeline (Spec).                     *)
(***************************************************************************)
InQueue(id) == \E q \in 1..Len(queue) : queue[q] = id

\* C19: a record that emit enqueued after a stop() enqueued the sentinel
\* and before that stop() returned is never passed to write_points; the
\* worker that took the sentinel takes nothing more and writes nothing
\* more; once stop() has returned the record is still in the queue.
C19_DrainingEmitNotDelivered ==
    IsAsync =>
        /\ \A i \in 1..Len(emitLog) :
             emitLog[i].phase = "draining" =>
                 /\ emitLog[i].rec \notin WrittenRecs
                 /\ StopReturned => InQueue(emitLog[i].rec)
        /\ worker = "exited" =>
             /\ ~ENABLED WorkerGet
             /\ ~ENABLED (\E ok \in BOOLEAN : WorkerWriteReturn(ok))

C19_Witness ==
    /\ IsAsync /\ StopReturned /\ worker = "exited"
    /\ Len(Writes) >= 1
    /\ \E i \in 1..Len(emitLog) :
         emitLog[i].phase = "draining" /\ InQueue(emitLog[i].rec)

\* the handler has taken the record up: emit was called on a sync handler,
\* or the worker of an async handler took it from the queue
Processed(id) ==
    /\ id \in 1..Len(recs)
    /\ IsAsync => (~InQueue(id) /\ \E i \in 1..Len(emitLog) : emitLog[i].rec = id)

\* C20: every record a handler has taken up was passed to write_points in
\* exactly one call, that call carries the points of all prefixes of the
\* record's name and of no other record, and there are never more
\* write_points calls than emitted records.
C20_OneWritePerRecord ==
    /\ Len(Writes) <= Len(recs)
    /\ \A id \in 1..Len(recs) :
         /\ WriteCount(id) <= 1
         /\ Processed(id) => WriteCount(id) = 1
    /\ \A j \in 1..Len(Writes) :
         /\ Writes[j].rec \in 1..Len(recs)
         /\ Len(Writes[j].points) = 2
         /\ Writes[j].points[1].measurement = << "x" >>
         /\ Writes[j].points[2].measurement = << "x", ":", "y" >>
         /\ \A k \in 1..2 : Writes[j].points[k].time = Nanos(recs[Writes[j].rec].created)

====
